---- MODULE Spec2Model ----
(***************************************************************************)
(* Model of valhalla::thor::AutoCost (src/thor/autocost.cc): the speed     *)
(* cost table built by the constructor, the edge/node access checks and    *)
(* the cost functions that read the table.                                  *)
(*                                                                          *)
(* The table holds IEEE-754 binary32 values.  A float is modelled as a     *)
(* record [k, m, e]: k = "fin" with value m * 2^e (m = 0, or m normalised  *)
(* to 2^23 <= m < 2^24), k = "inf" or k = "nan".  Only non-negative values *)
(* occur.  Products and quotients are rounded to nearest, ties to even, as *)
(* the hardware does; wide intermediate values are kept in 12-bit limbs.   *)
(***************************************************************************)
EXTENDS Integers, Sequences, FiniteSets

\* ------------------------------------------------------------------------
\* binary32 arithmetic
\* ------------------------------------------------------------------------

Fin(m, e) == [k |-> "fin", m |-> m, e |-> e]
NaN       == [k |-> "nan", m |-> 0, e |-> 0]
Inf       == [k |-> "inf", m |-> 0, e |-> 0]
FZero     == Fin(0, 0)

IsFinite(a) == a.k = "fin"
IsZero(a)   == a.k = "fin" /\ a.m = 0

RECURSIVE Normalize(_, _)
\* m > 0, m < 2^24: shift left until the leading bit is bit 23 (exact).
Normalize(m, e) == IF m >= 8388608 THEN Fin(m, e) ELSE Normalize(2 * m, e - 1)

\* Round the quotient q with remainder rem (out of 2 * half) to nearest,
\* ties to even; renormalise when the mantissa carries out of 24 bits.
RoundNearestEven(q, rem, half, e) ==
  LET up == (rem > half) \/ (rem = half /\ q % 2 = 1)
      r  == IF up THEN q + 1 ELSE q
  IN  IF r = 16777216 THEN Fin(8388608, e + 1) ELSE Fin(r, e)

\* static_cast<float>(n) for an integer 0 <= n < 2^24 (exact).
IntToFloat(n) == IF n = 0 THEN FZero ELSE Normalize(n, 0)

\* a * b in binary32.
FMul(a, b) ==
  IF a.k = "nan" \/ b.k = "nan" THEN NaN
  ELSE IF a.k = "inf" \/ b.k = "inf"
       THEN (IF IsZero(a) \/ IsZero(b) THEN NaN ELSE Inf)
  ELSE IF a.m = 0 \/ b.m = 0 THEN FZero
  ELSE
    LET ah == a.m \div 4096   al == a.m % 4096
        bh == b.m \div 4096   bl == b.m % 4096
        p0 == al * bl
        t1 == ah * bl + al * bh + (p0 \div 4096)
        hi == ah * bh + (t1 \div 4096)               \* product \div 2^24
        lo == (t1 % 4096) * 4096 + (p0 % 4096)       \* product %    2^24
    IN  IF hi >= 8388608
        THEN RoundNearestEven(hi, lo, 8388608, a.e + b.e + 24)
        ELSE RoundNearestEven(2 * hi + (lo \div 8388608), lo % 8388608,
                              4194304, a.e + b.e + 23)

RECURSIVE LongDiv(_, _, _, _)
\* n more quotient bits of r / d (r < d): <<quotient, remainder>>.
LongDiv(q, r, d, n) ==
  IF n = 0 THEN <<q, r>>
  ELSE IF 2 * r >= d THEN LongDiv(2 * q + 1, 2 * r - d, d, n - 1)
       ELSE LongDiv(2 * q, 2 * r, d, n - 1)

\* a / b in binary32.
FDiv(a, b) ==
  IF a.k = "nan" \/ b.k = "nan" THEN NaN
  ELSE IF a.k = "inf" THEN (IF b.k = "inf" THEN NaN ELSE Inf)
  ELSE IF b.k = "inf" THEN FZero
  ELSE IF b.m = 0 THEN (IF a.m = 0 THEN NaN ELSE Inf)
  ELSE IF a.m = 0 THEN FZero
  ELSE
    LET n  == IF a.m >= b.m THEN 23 ELSE 24
        qr == LongDiv(a.m \div b.m, a.m % b.m, b.m, n)
    IN  \* remainder r of b.m: compare 2r with b.m
        RoundNearestEven(qr[1], 2 * qr[2], b.m, a.e - b.e - n)

\* a < b for finite non-negative floats.
FLess(a, b) ==
  /\ a.k = "fin" /\ b.k = "fin"
  /\ b.m > 0
  /\ \/ a.m = 0
     \/ a.e < b.e
     \/ a.e = b.e /\ a.m < b.m

\* ------------------------------------------------------------------------
\* Integer helpers for the bit masks
\* ------------------------------------------------------------------------

RECURSIVE BitAnd(_, _)
\* a & b on non-negative integers.
BitAnd(a, b) ==
  IF a = 0 \/ b = 0 THEN 0
  ELSE (a % 2) * (b % 2) + 2 * BitAnd(a \div 2, b \div 2)

\* 1 << idx, as the set of bit positions that are set (idx in 0..31; bit 31
\* of the int result is bit 31 of the uint32_t operand it is and-ed with).
Shl1(idx) == {idx}

\* ------------------------------------------------------------------------
\* Program constants
\* ------------------------------------------------------------------------

kAutoAccess == 1
kSecPerHour == IntToFloat(3600)
\* the literal 0.001f = 0x3A83126F
Milli       == Fin(8589935, -33)

\* ------------------------------------------------------------------------
\* State
\* ------------------------------------------------------------------------

VARIABLES
  pc,           \* position of the constructor: "entry", "loop", "ready"
  s,            \* the constructor's loop variable
  speedfactor,  \* float speedfactor_[256]
  ret,          \* per search worker: the last call it made and its result
  nedges,       \* edges on the path a search has expanded so far
  distance,     \* sum of their lengths (metres)
  cost          \* exact sum of Get(edge) over them, see FixAdd

vars == <<pc, s, speedfactor, ret, nedges, distance, cost>>

\* ------------------------------------------------------------------------
\* Bounds and input domains
\* ------------------------------------------------------------------------

NumWorkers == 2      \* search workers sharing one AutoCost
MaxEdges   == 3      \* edges on an expanded path

Workers == 1..NumWorkers

\* What the storage of a freshly allocated object may hold.
Garbage == {NaN, IntToFloat(1)}

Idle == [op |-> "none", args |-> <<>>, val |-> FALSE]

Edge(len, spd, idx, up, down, lvl, sc, nt, acc) ==
  [length |-> len, speed |-> spd, localedgeidx |-> idx, trans_up |-> up,
   trans_down |-> down, level |-> lvl, shortcut |-> sc, not_thru |-> nt,
   forwardaccess |-> acc]

\* Edges that differ in the attributes the access checks read.
AccessEdges ==
  { Edge(1000, 60, idx, up, down, lvl, sc, nt, acc) :
      idx \in {0, 1, 31}, up \in BOOLEAN, down \in BOOLEAN, lvl \in {0, 1, 2},
      sc \in BOOLEAN, nt \in BOOLEAN, acc \in {0, 1, 2, 3} }

\* Edges that differ in the attributes the cost functions read.
CostEdges ==
  { Edge(len, spd, 0, FALSE, FALSE, 2, FALSE, FALSE, 1) :
      len \in {0, 1, 17, 1000, 2000},
      spd \in {0, 1, 2, 59, 60, 61, 119, 120, 121, 150, 151, 253, 254, 255} }

\* Turn restriction masks, as sets of bit positions.
Restrictions == {{}, {0}, {1, 31}}

\* Distances to the destination (metres) around every threshold.
Dists == {0, 4999, 5000, 5001, 9999, 10000, 10001, 20000, 40000, 49999,
          50000, 50001, 60000}

Nodes == [access : {0, 1, 2, 3}]

\* ------------------------------------------------------------------------
\* The member functions, as functions of their arguments and the table
\* ------------------------------------------------------------------------

\* Variants of Allowed with one rule changed, used to show that the
\* properties below depend on that rule.

\* the U-turn test dropped from the last rule
AllowedEdge_NoUturn(edge, restriction, uturn, dist2dest) ==
  IF restriction \cap Shl1(edge.localedgeidx) # {} THEN FALSE
  ELSE IF edge.trans_up
       THEN (IF edge.level = 0 THEN dist2dest > 50000 ELSE dist2dest > 10000)
  ELSE IF edge.trans_down
       THEN (IF edge.level = 1 THEN dist2dest < 50000 ELSE dist2dest < 10000)
  ELSE IF edge.shortcut /\ dist2dest < 10000 THEN FALSE
  ELSE IF edge.not_thru /\ dist2dest > 5000 THEN FALSE
  ELSE BitAnd(edge.forwardaccess, kAutoAccess) # 0

\* the turn restriction tested after the hierarchy transitions
AllowedEdge_RestrictionLate(edge, restriction, uturn, dist2dest) ==
  IF edge.trans_up
  THEN (IF edge.level = 0 THEN dist2dest > 50000 ELSE dist2dest > 10000)
  ELSE IF edge.trans_down
       THEN (IF edge.level = 1 THEN dist2dest < 50000 ELSE dist2dest < 10000)
  ELSE IF restriction \cap Shl1(edge.localedgeidx) # {} THEN FALSE
  ELSE IF edge.shortcut /\ dist2dest < 10000 THEN FALSE
  ELSE IF uturn \/ (edge.not_thru /\ dist2dest > 5000) THEN FALSE
  ELSE BitAnd(edge.forwardaccess, kAutoAccess) # 0

\* >= for > in the upward transition rule
AllowedEdge_UpInclusive(edge, restriction, uturn, dist2dest) ==
  IF restriction \cap Shl1(edge.localedgeidx) # {} THEN FALSE
  ELSE IF edge.trans_up
       THEN (IF edge.level = 0 THEN dist2dest >= 50000 ELSE dist2dest >= 10000)
  ELSE IF edge.trans_down
       THEN (IF edge.level = 1 THEN dist2dest < 50000 ELSE dist2dest < 10000)
  ELSE IF edge.shortcut /\ dist2dest < 10000 THEN FALSE
  ELSE IF uturn \/ (edge.not_thru /\ dist2dest > 5000) THEN FALSE
  ELSE BitAnd(edge.forwardaccess, kAutoAccess) # 0

\* level 0 for level 1 in the downward transition rule
AllowedEdge_DownLevel0(edge, restriction, uturn, dist2dest) ==
  IF restriction \cap Shl1(edge.localedgeidx) # {} THEN FALSE
  ELSE IF edge.trans_up
       THEN (IF edge.level = 0 THEN dist2dest > 50000 ELSE dist2dest > 10000)
  ELSE IF edge.trans_down
       THEN (IF edge.level = 0 THEN dist2dest < 50000 ELSE dist2dest < 10000)
  ELSE IF edge.shortcut /\ dist2dest < 10000 THEN FALSE
  ELSE IF uturn \/ (edge.not_thru /\ dist2dest > 5000) THEN FALSE
  ELSE BitAnd(edge.forwardaccess, kAutoAccess) # 0

\* the no-thru rule applied near the destination instead of far from it
AllowedEdge_NotThruNear(edge, restriction, uturn, dist2dest) ==
  IF restriction \cap Shl1(edge.localedgeidx) # {} THEN FALSE
  ELSE IF edge.trans_up
       THEN (IF edge.level = 0 THEN dist2dest > 50000 ELSE dist2dest > 10000)
  ELSE IF edge.trans_down
       THEN (IF edge.level = 1 THEN dist2dest < 50000 ELSE dist2dest < 10000)
  ELSE IF edge.shortcut /\ dist2dest < 10000 THEN FALSE
  ELSE IF uturn \/ (edge.not_thru /\ dist2dest < 5000) THEN FALSE
  ELSE BitAnd(edge.forwardaccess, kAutoAccess) # 0

\* bool AutoCost::Allowed(const DirectedEdge*, uint32_t, bool, float)
AllowedEdge(edge, restriction, uturn, dist2dest) ==
  IF restriction \cap Shl1(edge.localedgeidx) # {} THEN FALSE
  ELSE IF edge.trans_up
       THEN (IF edge.level = 0 THEN dist2dest > 50000 ELSE dist2dest > 10000)
  ELSE IF edge.trans_down
       THEN (IF edge.level = 1 THEN dist2dest < 50000 ELSE dist2dest < 10000)
  ELSE IF edge.shortcut /\ dist2dest < 10000 THEN FALSE
  ELSE IF uturn \/ (edge.not_thru /\ dist2dest > 5000) THEN FALSE
  ELSE BitAnd(edge.forwardaccess, kAutoAccess) # 0

\* bool AutoCost::Allowed(const NodeInfo*)
AllowedNode(node) == BitAnd(node.access, kAutoAccess) # 0

\* float AutoCost::Get(const DirectedEdge*)
Get(table, edge) == FMul(IntToFloat(edge.length), table[edge.speed])

\* Seconds dividing the length by the speed entry instead of multiplying
Seconds_Divides(table, edge) ==
  FDiv(IntToFloat(edge.length), table[edge.speed])

\* float AutoCost::Seconds(const DirectedEdge*)
Seconds(table, edge) == FMul(IntToFloat(edge.length), table[edge.speed])

\* float AutoCost::AStarCostFactor()
AStarCostFactor(table) == table[120]

\* float AutoCost::UnitSize()
UnitSize == IntToFloat(1)

\* the lambda GetFilter() returns, applied to an edge
Filter(edge) ==
  edge.trans_up \/ edge.trans_down
    \/ ~(BitAnd(edge.forwardaccess, kAutoAccess) # 0)

\* ------------------------------------------------------------------------
\* Exact sums of floats: <<hi, lo>> stands for (hi * 2^24 + lo) * 2^-30
\* ------------------------------------------------------------------------

FixZero == <<0, 0>>

\* The exact value of a finite float a with a.e >= -30 (every product of a
\* length >= 1 with a table entry for a speed <= 120 is such a float).
ToFix(a) ==
  LET sh == a.e + 30
  IN  IF a.m = 0 THEN FixZero
      ELSE IF sh >= 24 THEN <<a.m * 2^(sh - 24), 0>>
      ELSE <<a.m \div 2^(24 - sh), (a.m % 2^(24 - sh)) * 2^sh>>

FixAdd(x, y) ==
  <<x[1] + y[1] + ((x[2] + y[2]) \div 16777216), (x[2] + y[2]) % 16777216>>

FixLeq(x, y) == x[1] < y[1] \/ (x[1] = y[1] /\ x[2] <= y[2])

\* ------------------------------------------------------------------------
\* Initial state and the constructor
\* ------------------------------------------------------------------------

\* CreateAutoCost has allocated the object; AutoCost::AutoCost is entered.
Init ==
  /\ pc = "entry"
  /\ s = 0
  /\ \E g \in Garbage : speedfactor = [i \in 0..255 |-> g]
  /\ ret = [w \in Workers |-> Idle]
  /\ nedges = 0
  /\ distance = 0
  /\ cost = FixZero

\* speedfactor_[0] = kSecPerHour; s = 1
CtorEntry ==
  /\ pc = "entry"
  /\ speedfactor' = [speedfactor EXCEPT ![0] = kSecPerHour]
  /\ s' = 1
  /\ pc' = "loop"
  /\ UNCHANGED <<ret, nedges, distance, cost>>

\* the loop body without the 0.001f factor
LoopValue_NoMilli(n) == FDiv(kSecPerHour, IntToFloat(n))

\* the value the loop body stores for s
LoopValue(n) == FDiv(FMul(kSecPerHour, Milli), IntToFloat(n))

\* one iteration of for (s = 1; s < 255; s++)
CtorLoop ==
  /\ pc = "loop"
  /\ s < 255
  /\ speedfactor' = [speedfactor EXCEPT ![s] = LoopValue(s)]
  /\ s' = s + 1
  /\ UNCHANGED <<pc, ret, nedges, distance, cost>>

\* the loop ends; the constructor returns and the object is handed out
CtorReturn ==
  /\ pc = "loop"
  /\ ~(s < 255)
  /\ pc' = "ready"
  /\ UNCHANGED <<s, speedfactor, ret, nedges, distance, cost>>

AutoCost == CtorEntry \/ CtorLoop \/ CtorReturn

\* ------------------------------------------------------------------------
\* Calls made by the search workers on the constructed object
\* ------------------------------------------------------------------------

\* A worker that is not inside a call may make one.
CanCall(w) == pc = "ready" /\ ret[w] = Idle

Returns(w, op, args, val) ==
  /\ ret' = [ret EXCEPT ![w] = [op |-> op, args |-> args, val |-> val]]
  /\ UNCHANGED <<pc, s, speedfactor, nedges, distance, cost>>

\* Each call draws its arguments from the given sets.
CallAllowedEdge(w, E, R, D) ==
  /\ CanCall(w)
  /\ \E edge \in E, restriction \in R, uturn \in BOOLEAN, dist2dest \in D :
       Returns(w, "Allowed",
               [edge |-> edge, restriction |-> restriction, uturn |-> uturn,
                dist2dest |-> dist2dest],
               AllowedEdge(edge, restriction, uturn, dist2dest))

CallAllowedNode(w, N) ==
  /\ CanCall(w)
  /\ \E node \in N :
       Returns(w, "AllowedNode", [node |-> node], AllowedNode(node))

\* Get keeping the cost it computed in the table entry it read
CallGet_Caches(w, E) ==
  /\ CanCall(w)
  /\ \E edge \in E :
       /\ ret' = [ret EXCEPT ![w] = [op |-> "Get", args |-> [edge |-> edge],
                                     val |-> Get(speedfactor, edge)]]
       /\ speedfactor' = [speedfactor EXCEPT
                            ![edge.speed] = Get(speedfactor, edge)]
  /\ UNCHANGED <<pc, s, nedges, distance, cost>>

CallGet(w, E) ==
  /\ CanCall(w)
  /\ \E edge \in E :
       Returns(w, "Get", [edge |-> edge], Get(speedfactor, edge))

CallSeconds(w, E) ==
  /\ CanCall(w)
  /\ \E edge \in E :
       Returns(w, "Seconds", [edge |-> edge], Seconds(speedfactor, edge))

CallAStarCostFactor(w) ==
  /\ CanCall(w)
  /\ Returns(w, "AStarCostFactor", <<>>, AStarCostFactor(speedfactor))

CallUnitSize(w) ==
  /\ CanCall(w)
  /\ Returns(w, "UnitSize", <<>>, UnitSize)

CallFilter(w, E) ==
  /\ CanCall(w)
  /\ \E edge \in E :
       Returns(w, "GetFilter", [edge |-> edge], Filter(edge))

\* The worker has used the returned value and goes on with its search.
Resume(w) ==
  /\ pc = "ready"
  /\ ret[w] # Idle
  /\ ret' = [ret EXCEPT ![w] = Idle]
  /\ UNCHANGED <<pc, s, speedfactor, nedges, distance, cost>>

\* A search extends its path by one edge of E and adds the edge's cost.
Expand(E) ==
  /\ pc = "ready"
  /\ nedges < MaxEdges
  /\ \E edge \in E :
       /\ nedges' = nedges + 1
       /\ distance' = distance + edge.length
       /\ cost' = FixAdd(cost, ToFix(Get(speedfactor, edge)))
  /\ UNCHANGED <<pc, s, speedfactor, ret>>

\* ------------------------------------------------------------------------
\* Specifications
\* ------------------------------------------------------------------------

\* One search worker, every member function, the full input domains.
Next ==
  \/ AutoCost
  \/ CallAllowedEdge(1, AccessEdges, Restrictions, Dists)
  \/ CallAllowedNode(1, Nodes)
  \/ CallGet(1, CostEdges)
  \/ CallSeconds(1, CostEdges)
  \/ CallAStarCostFactor(1)
  \/ CallUnitSize(1)
  \/ CallFilter(1, AccessEdges)
  \/ Resume(1)

Spec == Init /\ [][Next]_vars

\* The cost functions only, for the claims about the table's contents.
NextTable ==
  \/ AutoCost
  \/ CallGet(1, CostEdges)
  \/ CallSeconds(1, CostEdges)
  \/ CallAStarCostFactor(1)
  \/ Resume(1)

SpecTable == Init /\ [][NextTable]_vars

\* Several workers share the object; each call draws from a few inputs.
SharedCostEdges ==
  { e \in CostEdges : e.length \in {17, 1000} /\ e.speed \in {60, 255} }

SharedAccessEdges ==
  { e \in AccessEdges :
      /\ e.localedgeidx = 0 /\ ~e.trans_up /\ ~e.trans_down /\ e.level = 2
      /\ ~e.shortcut /\ ~e.not_thru /\ e.forwardaccess \in {0, 1} }

NextShared ==
  \/ AutoCost
  \/ \E w \in Workers :
       \/ CallAllowedEdge(w, SharedAccessEdges, {{}}, {20000})
       \/ CallAllowedNode(w, {[access |-> 1]})
       \/ CallGet(w, SharedCostEdges)
       \/ CallSeconds(w, SharedCostEdges)
       \/ CallAStarCostFactor(w)
       \/ CallUnitSize(w)
       \/ CallFilter(w, SharedAccessEdges)
       \/ Resume(w)

SpecShared == Init /\ [][NextShared]_vars

\* A search expands a path over edges no faster than 120 km/h.
PathEdges ==
  { e \in CostEdges : e.length \in {1, 17, 1000} /\ e.speed \in {0, 60, 120} }

NextPath ==
  \/ AutoCost
  \/ Expand(PathEdges)

SpecPath == Init /\ [][NextPath]_vars

\* ------------------------------------------------------------------------
\* Properties
\* ------------------------------------------------------------------------

\* Worker w holds the result of a call of op.
Called(w, op) == ret[w].op = op

Restricted(a) == a.edge.localedgeidx \in a.restriction

HasAutoAccess(mask) == (mask \div kAutoAccess) % 2 = 1

\* C1 as stated: Allowed returns false whenever uturn is true, whatever the
\* other inputs are.  (Fails: hierarchy transitions return before the U-turn
\* test.)
C1_UturnAlwaysDenied ==
  \A w \in Workers :
    (Called(w, "Allowed") /\ ret[w].args.uturn) => ret[w].val = FALSE

\* C1 amended: Allowed returns false whenever uturn is true and the edge is
\* neither a transition-up nor a transition-down edge; a U-turn that is
\* allowed is a transition edge whose restriction bit is clear.
C1_UturnDeniedOffTransitions ==
  \A w \in Workers :
    (Called(w, "Allowed") /\ ret[w].args.uturn) =>
      LET a == ret[w].args
      IN  /\ (~a.edge.trans_up /\ ~a.edge.trans_down) => ret[w].val = FALSE
          /\ ret[w].val = TRUE =>
               (a.edge.trans_up \/ a.edge.trans_down) /\ ~Restricted(a)

\* C1 witness: a U-turn onto an ordinary edge that every other rule passes.
C1_Witness ==
  \E w \in Workers :
    /\ Called(w, "Allowed")
    /\ ret[w].args.uturn
    /\ ret[w].args.edge =
         Edge(1000, 60, 0, FALSE, FALSE, 2, FALSE, FALSE, 1)
    /\ ret[w].args.restriction = {}
    /\ ret[w].args.dist2dest = 20000
    /\ ret[w].val = FALSE

\* C2: when the restriction mask has the bit of the edge's localedgeidx set
\* (idx in 0..31), Allowed returns false, whatever the other inputs are.
C2_RestrictionDenies ==
  \A w \in Workers :
    (Called(w, "Allowed") /\ Restricted(ret[w].args)) => ret[w].val = FALSE

\* C2 witness: bit 31 restricted on an upward transition far from the
\* destination, which the transition rule alone would allow.
C2_Witness ==
  \E w \in Workers :
    /\ Called(w, "Allowed")
    /\ ret[w].args.edge = Edge(1000, 60, 31, TRUE, FALSE, 0, FALSE, FALSE, 1)
    /\ ret[w].args.restriction = {1, 31}
    /\ ~ret[w].args.uturn
    /\ ret[w].args.dist2dest = 60000
    /\ ret[w].val = FALSE

\* C5: for a transition-up edge with its restriction bit clear, Allowed is
\* true iff dist2dest > 50000 at end-node level 0 and iff dist2dest > 10000
\* at any other level, independent of every other input.
C5_UpTransitionRule ==
  \A w \in Workers :
    LET a == ret[w].args
    IN  (Called(w, "Allowed") /\ a.edge.trans_up /\ ~Restricted(a)) =>
          (ret[w].val = TRUE <=>
             IF a.edge.level = 0 THEN a.dist2dest > 50000
                                 ELSE a.dist2dest > 10000)

\* C5 witness: the boundary distance 50000 at level 0 is denied although
\* the edge has auto access.
C5_Witness ==
  \E w \in Workers :
    /\ Called(w, "Allowed")
    /\ ret[w].args.edge = Edge(1000, 60, 0, TRUE, TRUE, 0, TRUE, TRUE, 1)
    /\ ret[w].args.restriction = {}
    /\ ret[w].args.dist2dest = 50000
    /\ ret[w].val = FALSE

\* C6: for a transition-down edge that is not transition-up, restriction bit
\* clear, Allowed is true iff dist2dest < 50000 at end-node level 1 and iff
\* dist2dest < 10000 at any other level, independent of every other input.
C6_DownTransitionRule ==
  \A w \in Workers :
    LET a == ret[w].args
    IN  (/\ Called(w, "Allowed")
         /\ a.edge.trans_down /\ ~a.edge.trans_up /\ ~Restricted(a)) =>
          (ret[w].val = TRUE <=>
             IF a.edge.level = 1 THEN a.dist2dest < 50000
                                 ELSE a.dist2dest < 10000)

\* C6 witness: a downward transition at level 1, 49999 m from the
\* destination, is allowed on a U-turn and without auto access.
C6_Witness ==
  \E w \in Workers :
    /\ Called(w, "Allowed")
    /\ ret[w].args.edge = Edge(1000, 60, 1, FALSE, TRUE, 1, TRUE, TRUE, 0)
    /\ ret[w].args.restriction = {0}
    /\ ret[w].args.uturn
    /\ ret[w].args.dist2dest = 49999
    /\ ret[w].val = TRUE

\* C7: for an edge that is no hierarchy transition, restriction bit clear,
\* Allowed is true iff not (shortcut and dist2dest < 10000), not uturn, not
\* (not_thru and dist2dest > 5000), and the forward access mask has the auto
\* bit; a shortcut is denied at 5000 and allowed at 20000.
C7_OrdinaryEdgeRule ==
  \A w \in Workers :
    LET a == ret[w].args
    IN  (/\ Called(w, "Allowed")
         /\ ~a.edge.trans_up /\ ~a.edge.trans_down /\ ~Restricted(a)) =>
          /\ ret[w].val = TRUE <=>
               /\ ~(a.edge.shortcut /\ a.dist2dest < 10000)
               /\ ~a.uturn
               /\ ~(a.edge.not_thru /\ a.dist2dest > 5000)
               /\ HasAutoAccess(a.edge.forwardaccess)
          /\ (a.edge.shortcut /\ a.dist2dest = 5000) => ret[w].val = FALSE
          /\ (/\ a.edge.shortcut /\ a.dist2dest = 20000 /\ ~a.uturn
              /\ ~a.edge.not_thru /\ a.edge.forwardaccess = 1)
               => ret[w].val = TRUE

\* C7 witness: a shortcut edge 20000 m from the destination is allowed.
C7_Witness ==
  \E w \in Workers :
    /\ Called(w, "Allowed")
    /\ ret[w].args.edge = Edge(1000, 60, 0, FALSE, FALSE, 2, TRUE, FALSE, 3)
    /\ ret[w].args.restriction = {1, 31}
    /\ ~ret[w].args.uturn
    /\ ret[w].args.dist2dest = 20000
    /\ ret[w].val = TRUE

\* C3 as stated: the heuristic is admissible: for a path over edges of
\* speed <= 120, AStarCostFactor() * distance (a binary32 product) is at
\* most the exact sum of Get(edge) over the path.  (Fails: Get rounds each
\* product to binary32.)
C3_HeuristicAdmissible ==
  pc = "ready" =>
    FixLeq(ToFix(FMul(AStarCostFactor(speedfactor), IntToFloat(distance))),
           cost)

\* C4 as stated: once the constructor has returned, every entry of
\* speedfactor_ for speeds 0..255 holds a finite value the constructor
\* assigned.  (Fails: entry 255 keeps what the storage held.)
C4_EveryEntryAssigned ==
  pc = "ready" => \A i \in 0..255 : IsFinite(speedfactor[i])

\* C8: after construction no call by any worker changes speedfactor_, and
\* two calls of the same function with the same arguments, made by any
\* workers at any times, return the same result.
C8_SameCallSameResult ==
  \A w1, w2 \in Workers :
    (ret[w1].op = ret[w2].op /\ ret[w1].args = ret[w2].args)
      => ret[w1].val = ret[w2].val

C8_SharedTableReadOnly ==
  /\ []C8_SameCallSameResult
  /\ [][pc = "ready" => speedfactor' = speedfactor]_vars

\* C8 witness: one worker holds the result of Get for an edge while another
\* worker has since called Get for the same edge.
C8_Witness ==
  /\ Called(1, "Get") /\ Called(2, "Get")
  /\ ret[1].args.edge.speed = 60 /\ ret[1].args.edge.length = 17
  /\ ret[1].args = ret[2].args

C10_TableContents ==
  pc = "ready" =>
    /\ speedfactor[0] = Fin(14745600, -12)
    /\ \A n \in 1..254 :
         speedfactor[n] = FDiv(FMul(Fin(14745600, -12), Fin(8589935, -33)),
                               IntToFloat(n))
    /\ \A n \in 2..254 : FLess(speedfactor[n], speedfactor[n - 1])
    /\ \A n \in 1..254 : FLess(speedfactor[n], speedfactor[0])

\* C10 witness: the constructed table, with 3.6 s/m at 1 km/h, 0.03 s/m at
\* 120 km/h and 0.0141732 s/m at 254 km/h.
C10_Witness ==
  /\ pc = "ready"
  /\ speedfactor[1] = Fin(15099495, -22)
  /\ speedfactor[120] = Fin(16106128, -29)
  /\ speedfactor[254] = Fin(15218389, -30)

====
